---- MODULE Spec2Model ----
(***************************************************************************)
(* Title rotation and archival state machine of YT-Title-Updater.          *)
(*                                                                         *)
(* The repository holds three implementations of the core:                 *)
(*   "pkg"    youtube_updater/core/__init__.py + core/title_manager.py     *)
(*   "legacy" youtube_updater/core.py            (single-file core)        *)
(*   "src"    src/youtube_updater/core.py        (single-file core, v2)    *)
(* The variable impl says which of them the process runs; every operation  *)
(* is translated from the implementation it belongs to.                    *)
(*                                                                         *)
(* Strings are modelled as strings: an f-string is a concatenation (\o).   *)
(* A text file is the sequence of its lines; titles_nl says whether the    *)
(* last line of the titles file is terminated by a newline.                *)
(***************************************************************************)
EXTENDS Integers, Sequences, FiniteSets, TLC

VARIABLES
    impl,            \* which implementation of the core is running
    youtube,         \* the API client is initialised (youtube_client / self.youtube)
    titles,          \* in-memory queue (self.titles)
    next_title,      \* self.next_title
    current_title,   \* self.current_title
    is_live,         \* self.is_live (cached by the last check)
    status,          \* status message
    status_type,     \* status severity
    titles_file,     \* titles.txt: sequence of raw lines
    titles_nl,       \* titles.txt ends with a newline (or is empty)
    applied_file,    \* applied-titles.txt: sequence of lines
    history_log,     \* history.log: sequence of lines
    remote_live,     \* the channel has a live broadcast
    remote_title,    \* the title of that broadcast on the remote
    pushed,          \* titles accepted by the remote, in order (API call record)
    now,             \* minutes elapsed on the wall clock since ClockStart
    trace,           \* the last operation and the outcome of its remote calls
    store_ok,        \* file operations in the configuration directory succeed
    raised,          \* the exception that escaped the last operation ("" if none)
    fault,           \* the file operation that fails during the current operation
    on_disk,         \* the files that exist in the configuration directory
    status_callbacks, \* the callbacks registered with the status manager, in order
    notified         \* the calls the callbacks have received, in order

vars == <<impl, youtube, titles, next_title, current_title, is_live, status,
          status_type, titles_file, titles_nl, applied_file, history_log,
          remote_live, remote_title, pushed, now, trace, store_ok, raised,
          fault, on_disk, status_callbacks, notified>>

----------------------------------------------------------------------------
(* Bounds of the model *)

MaxQueue == 2      \* longest initial titles file / in-memory queue grown by add_title
MaxPush == 2       \* remote pushes explored per run
MaxHistory == 4    \* history lines after which no further cycle is explored
MaxTicks == 1      \* minutes the wall clock advances

(* Program constants *)

DEFAULT_TITLE == "Live Stream"
NO_TITLES == "No titles available"
NOT_LIVE == "Not Live"
STATUS_TYPES == {"info", "success", "error", "warning"}

(* Inputs *)

Titles == {"Title 1", "Title 2"}
Blank == ""
Spaces == "   "
Padded == " Title 1 "
RawLines == Titles \cup {Blank, Spaces, Padded}
Absent == "Nonexistent Title"
ArchiveArgs == {"Title 1", Absent}
Severities == STATUS_TYPES \cup {"invalid_type"}
RemoteTitles == {"Old", "Title 1"}
ApiError == "quotaExceeded"
StoreError == "[Errno 13] Permission denied"

----------------------------------------------------------------------------
(* Sequence helpers (Python list / file primitives) *)

BSeq(S, n) == UNION {[1..k -> S] : k \in 0..n}

Contains(seq, x) == \E i \in 1..Len(seq) : seq[i] = x

\* str.strip() on the lines the model writes
strip(line) ==
    CASE line = Spaces -> Blank
      [] line = Padded -> "Title 1"
      [] OTHER -> line

\* [line.strip() for line in f if line.strip()]
NonBlank(lines) ==
    SelectSeq([i \in 1..Len(lines) |-> strip(lines[i])], LAMBDA l : l # Blank)

\* list.index(x), x in the list
IndexOf(seq, x) == CHOOSE i \in 1..Len(seq) : seq[i] = x /\ \A j \in 1..(i-1) : seq[j] # x

\* list.remove(x): drops the first occurrence
RemoveFirst(seq, x) ==
    IF Contains(seq, x)
    THEN LET i == IndexOf(seq, x)
         IN  SubSeq(seq, 1, i-1) \o SubSeq(seq, i+1, Len(seq))
    ELSE seq

Last(seq) == seq[Len(seq)]

----------------------------------------------------------------------------
(* Wall clock and the default title generator *)

ClockStart == 6 * 1440 - 421     \* minute of the week (Monday 00:00 = 0): Saturday 16:59

MinuteOfWeek(t) == (ClockStart + t) % (7 * 1440)
Weekday(t) == MinuteOfWeek(t) \div 1440          \* datetime.weekday(): Monday = 0
Hour(t) == (MinuteOfWeek(t) % 1440) \div 60
Minute(t) == MinuteOfWeek(t) % 60

TwoDigits(n) == IF n < 10 THEN "0" \o ToString(n) ELSE ToString(n)

\* strftime("%A, %B %d, %Y") for the week of the model's clock
DatePart(t) ==
    CASE Weekday(t) = 0 -> "Monday, March 18, 2024"
      [] Weekday(t) = 1 -> "Tuesday, March 19, 2024"
      [] Weekday(t) = 2 -> "Wednesday, March 20, 2024"
      [] Weekday(t) = 3 -> "Thursday, March 21, 2024"
      [] Weekday(t) = 4 -> "Friday, March 22, 2024"
      [] Weekday(t) = 5 -> "Saturday, March 23, 2024"
      [] OTHER          -> "Sunday, March 24, 2024"

\* strftime("%Y-%m-%d %H:%M:%S")
Timestamp(t) ==
    "2024-03-" \o ToString(18 + Weekday(t)) \o " "
        \o TwoDigits(Hour(t)) \o ":" \o TwoDigits(Minute(t)) \o ":00"

\* the evening ends one minute early
is_saturday_evening_before_45(t) ==
    /\ Weekday(t) = 5
    /\ Hour(t) >= 17
    /\ (Hour(t) < 23 \/ (Hour(t) = 23 /\ Minute(t) < 45))

is_saturday_evening(t) ==
    /\ Weekday(t) = 5
    /\ Hour(t) >= 17
    /\ (Hour(t) < 23 \/ (Hour(t) = 23 /\ Minute(t) <= 45))

generate_title(t) ==
    DatePart(t) \o " - " \o
        (IF is_saturday_evening(t) THEN "Vespers and Midnight Praises" ELSE "Divine Liturgy")

\* the zone a generator is built with when none is given; the model's clock
\* is the wall clock of that zone
DEFAULT_TIMEZONE == "US/Eastern"

Zones == {"US/Eastern", "US/Pacific", "UTC"}

\* pytz.timezone(zone): minutes east of UTC in March 2024
UtcOffset(zone) ==
    CASE zone = "US/Eastern" -> -240
      [] zone = "US/Pacific" -> -420
      [] OTHER -> 0

\* datetime.now(self.timezone): the instant t on the wall clock of the zone
datetime_now(t, zone) == t + UtcOffset(zone) - UtcOffset(DEFAULT_TIMEZONE)

\* generate_title of a generator built with the given zone
DefaultTitleGenerator_generate_title(t, zone) == generate_title(datetime_now(t, zone))

----------------------------------------------------------------------------
(* The state as one record, so that a handler is the composition of the    *)
(* methods it calls.                                                       *)

Cur ==
    [impl |-> impl, youtube |-> youtube, titles |-> titles, next_title |-> next_title,
     current_title |-> current_title, is_live |-> is_live, status |-> status,
     status_type |-> status_type, titles_file |-> titles_file, titles_nl |-> titles_nl,
     applied_file |-> applied_file, history_log |-> history_log,
     remote_live |-> remote_live, remote_title |-> remote_title, pushed |-> pushed,
     now |-> now, trace |-> trace, store_ok |-> store_ok, raised |-> raised,
     fault |-> fault, on_disk |-> on_disk,
     status_callbacks |-> status_callbacks, notified |-> notified]

Set(s) ==
    /\ impl' = s.impl
    /\ youtube' = s.youtube
    /\ titles' = s.titles
    /\ next_title' = s.next_title
    /\ current_title' = s.current_title
    /\ is_live' = s.is_live
    /\ status' = s.status
    /\ status_type' = s.status_type
    /\ titles_file' = s.titles_file
    /\ titles_nl' = s.titles_nl
    /\ applied_file' = s.applied_file
    /\ history_log' = s.history_log
    /\ remote_live' = s.remote_live
    /\ remote_title' = s.remote_title
    /\ pushed' = s.pushed
    /\ now' = s.now
    /\ trace' = s.trace
    /\ store_ok' = s.store_ok
    /\ raised' = s.raised
    /\ fault' = s.fault
    /\ on_disk' = s.on_disk
    /\ status_callbacks' = s.status_callbacks
    /\ notified' = s.notified

NoCalls(name) ==
    [op |-> name, query |-> "none", push |-> "none", title |-> "", arg |-> "", type |-> "",
     result |-> ""]

\* titles.txt, applied-titles.txt, history.log, client_secrets.json
Files == {"titles", "applied", "history", "client_secrets"}

\* no file operation fails
NoFault == [file |-> "none", kept |-> 0]

Begin(s, name) == [s EXCEPT !.trace = NoCalls(name), !.raised = "", !.fault = NoFault]

\* the operation returns the value v to its caller
Returned(s, v) == [s EXCEPT !.trace.result = v]

\* the operation runs while the file operation f fails
Under(s, f) == [s EXCEPT !.fault = f]

\* the arguments of a call made directly on a component
Called(s, name, a, t) == [Begin(s, name) EXCEPT !.trace.arg = a, !.trace.type = t]

\* an exception leaves the method
Raise(s, exc) == [s EXCEPT !.raised = exc]

Raised(s) == s.raised # ""

\* except Exception as e: the handler has the exception, nothing propagates
Caught(s) == [s EXCEPT !.raised = ""]

----------------------------------------------------------------------------
(* File primitives *)

\* open(titles_file, "w"); f.write("\n".join(ts) + "\n" if ts else "")
WriteTitles(s, ts) == [s EXCEPT !.titles_file = ts, !.titles_nl = TRUE]

\* open(titles_file, "a"); f.write(f"{title}\n"): the text continues the last
\* line when that line has no newline yet
AppendTitle(s, title) ==
    IF s.titles_file = <<>> \/ s.titles_nl
    THEN [s EXCEPT !.titles_file = Append(@, title), !.titles_nl = TRUE]
    ELSE [s EXCEPT !.titles_file[Len(s.titles_file)] = @ \o title, !.titles_nl = TRUE]

AppendApplied(s, line) == [s EXCEPT !.applied_file = Append(@, line)]

AppendHistory(s, line) == [s EXCEPT !.history_log = Append(@, line)]

\* open(f, "a") of the applied-titles file ("applied") or the history log
\* ("history") succeeds
CanAppend(s, f) == s.store_ok /\ s.fault.file # f

\* open(titles_file, ...) for writing succeeds
CanOpenTitles(s) == s.store_ok /\ s.fault.file # "open"

\* open(titles_file, "w") truncates the file, then the lines are written: a
\* write that stops early leaves the first fault.kept lines and raises
SaveTitles(s, ts) ==
    IF ~CanOpenTitles(s)
    THEN Raise(s, "PermissionError")
    ELSE IF s.fault.file = "titles" /\ s.fault.kept < Len(ts)
    THEN Raise(WriteTitles(s, SubSeq(ts, 1, s.fault.kept)), "OSError")
    ELSE WriteTitles(s, ts)

----------------------------------------------------------------------------
(* Remote video API, as seen through the client *)

\* the live query: its reply is "raise", "live" or "idle"
QueryReplies(s) == {"raise", IF s.remote_live THEN "live" ELSE "idle"}

Queried(s, q) == [s EXCEPT !.trace.query = q]

\* videos().update(...).execute(): p = "ok" changes the broadcast, p = "raise" does not
Push(s, title, p) ==
    IF p = "ok"
    THEN [s EXCEPT !.remote_title = title, !.pushed = Append(@, title),
                   !.trace.push = "ok", !.trace.title = title]
    ELSE [s EXCEPT !.trace.push = "raise", !.trace.title = title]

----------------------------------------------------------------------------
(* StatusManager *)

\* set_status without the validation of the severity
set_status_unchecked(s, message, type) ==
    [s EXCEPT !.status = message, !.status_type = type]

\* a callback whose call raises
FailingCallback == "failing callback"

Callbacks == {"callback 1", "callback 2", FailingCallback}

\* for callback in self._status_callbacks: callback(message, status_type),
\* from the i-th callback on; each call is recorded with the status the
\* callback can read from the manager
RECURSIVE notify_callbacks(_, _, _, _)
notify_callbacks(s, i, message, type) ==
    IF i > Len(s.status_callbacks)
    THEN s
    ELSE LET s1 == [s EXCEPT !.notified =
                        Append(@, [callback |-> s.status_callbacks[i],
                                   message |-> message, type |-> type,
                                   status |-> s.status, status_type |-> s.status_type])]
         IN  IF s.status_callbacks[i] = FailingCallback
             THEN Raise(s1, "RuntimeError")
             ELSE notify_callbacks(s1, i + 1, message, type)

\* set_status that notifies the callbacks before it stores the status
set_status_notifying_first(s, message, type) ==
    IF type \in STATUS_TYPES
    THEN LET s1 == notify_callbacks(s, 1, message, type)
         IN  [s1 EXCEPT !.status = message, !.status_type = type]
    ELSE Raise(s, "ValueError")

set_status(s, message, type) ==
    IF type \in STATUS_TYPES
    THEN notify_callbacks([s EXCEPT !.status = message, !.status_type = type],
                          1, message, type)
    ELSE Raise(s, "ValueError")

----------------------------------------------------------------------------
(* "pkg": TitleManager (core/title_manager.py) *)

\* the fields are assigned before the file is opened
_create_default_titles(s) ==
    SaveTitles([s EXCEPT !.titles = <<DEFAULT_TITLE>>, !.next_title = DEFAULT_TITLE],
               <<DEFAULT_TITLE>>)

\* except Exception as e: raise TitleManagerError(...)
Wrapped(s) == IF Raised(s) THEN Raise(s, "TitleManagerError") ELSE s

load_titles(s) ==
    LET ts == NonBlank(s.titles_file)
    IN  IF ~s.store_ok
        THEN Raise(s, "TitleManagerError")
        ELSE IF ts # <<>>
        THEN [s EXCEPT !.titles = ts, !.next_title = ts[1]]
        ELSE Wrapped(_create_default_titles([s EXCEPT !.titles = ts]))

get_next_title(s) == s.next_title

\* no try block: an OSError of the write leaves the method as it is
rotate_titles(s) ==
    IF s.titles = <<>>
    THEN _create_default_titles(s)
    ELSE LET rotated == Append(Tail(s.titles), Head(s.titles))
             s1 == [s EXCEPT !.titles = rotated, !.next_title = rotated[1]]
         IN  SaveTitles(s1, rotated)

\* the value rotate_titles returns
rotate_titles_result(s) == IF s.titles = <<>> THEN DEFAULT_TITLE ELSE Head(s.titles)

\* archive_title that removes the title without a record in the applied file
archive_title_unrecorded(s, title) ==
    LET s2 == AppendHistory(s, Timestamp(s.now) \o ": " \o title)
    IN  IF ~CanAppend(s, "applied") \/ ~CanAppend(s, "history")
        THEN Raise(s, "TitleManagerError")
        ELSE IF Contains(s2.titles, title)
        THEN LET rest == RemoveFirst(s2.titles, title)
             IN  Wrapped(SaveTitles([s2 EXCEPT !.titles = rest], rest))
        ELSE s2

\* the two appends, then the removal; the first failing step ends the method
archive_title(s, title) ==
    LET s1 == AppendApplied(s, title)
        s2 == AppendHistory(s1, Timestamp(s.now) \o ": " \o title)
    IN  IF ~CanAppend(s, "applied")
        THEN Raise(s, "TitleManagerError")
        ELSE IF ~CanAppend(s, "history")
        THEN Raise(s1, "TitleManagerError")
        ELSE IF Contains(s2.titles, title)
        THEN LET rest == RemoveFirst(s2.titles, title)
             IN  Wrapped(SaveTitles([s2 EXCEPT !.titles = rest], rest))
        ELSE s2

\* the list is extended before the file is opened
TitleManager_add_title(s, title) ==
    IF ~Contains(s.titles, title)
    THEN LET s1 == [s EXCEPT !.titles = Append(@, title)]
         IN  IF CanOpenTitles(s) /\ s.fault.file # "titles"
             THEN AppendTitle(s1, title)
             ELSE Raise(s1, "TitleManagerError")
    ELSE s

(* "pkg": YouTubeUpdaterCore (core/__init__.py) *)

\* check_live_status that also applies the next title when the channel is live
check_live_status_updating(s, q) ==
    IF ~s.youtube
    THEN set_status(s, "YouTube client not initialized", "error")
    ELSE LET s1 == Queried(s, q)
         IN  CASE q = "raise" ->
                    set_status(s1, "Error checking live status: "
                                   \o "Error getting live stream info: " \o ApiError, "error")
               [] q = "live" ->
                    set_status(archive_title(Push([s1 EXCEPT !.is_live = TRUE,
                                                              !.current_title = s.remote_title],
                                                  get_next_title(s1), "ok"),
                                             get_next_title(s1)),
                               "Channel is live", "success")
               [] OTHER ->
                    set_status([s1 EXCEPT !.is_live = FALSE, !.current_title = NOT_LIVE],
                               "Channel is not live", "info")

\* check_live_status that keeps the last title when the broadcast has ended
check_live_status_keeping_title(s, q) ==
    IF ~s.youtube
    THEN set_status(s, "YouTube client not initialized", "error")
    ELSE LET s1 == Queried(s, q)
         IN  CASE q = "raise" ->
                    set_status(s1, "Error checking live status: "
                                   \o "Error getting live stream info: " \o ApiError, "error")
               [] q = "live" ->
                    set_status([s1 EXCEPT !.is_live = TRUE, !.current_title = s.remote_title],
                               "Channel is live", "success")
               [] OTHER ->
                    set_status([s1 EXCEPT !.is_live = FALSE], "Channel is not live", "info")

check_live_status(s, q) ==
    IF ~s.youtube
    THEN set_status(s, "YouTube client not initialized", "error")
    ELSE LET s1 == Queried(s, q)
         IN  CASE q = "raise" ->
                    set_status(s1, "Error checking live status: "
                                   \o "Error getting live stream info: " \o ApiError, "error")
               [] q = "live" ->
                    set_status([s1 EXCEPT !.is_live = TRUE, !.current_title = s.remote_title],
                               "Channel is live", "success")
               [] OTHER ->
                    set_status([s1 EXCEPT !.is_live = FALSE, !.current_title = NOT_LIVE],
                               "Channel is not live", "info")

\* update_title without the early return on the cached live flag
update_title_unguarded(s, q, p) ==
    IF ~s.youtube
    THEN set_status(s, "YouTube client not initialized", "error")
    ELSE LET s1 == Queried(s, q)
             new_title == get_next_title(s1)
         IN  CASE q = "raise" ->
                    set_status(s1, "Error updating title: "
                                   \o "Error getting live stream info: " \o ApiError, "error")
               [] q = "idle" ->
                    set_status(s1, "Channel is no longer live", "warning")
               [] OTHER ->
                    LET s2 == Push(s1, new_title, p)
                    IN  IF p = "raise"
                        THEN set_status(s2, "Error updating title: "
                                            \o "Error updating video title: " \o ApiError, "error")
                        ELSE set_status([archive_title(s2, new_title)
                                            EXCEPT !.current_title = new_title],
                                        "Title updated to: " \o new_title, "success")

\* update_title without the test of the reply of its own live query
update_title_trusting_flag(s, q, p) ==
    IF ~s.youtube
    THEN set_status(s, "YouTube client not initialized", "error")
    ELSE IF ~s.is_live
    THEN set_status(s, "Channel is not live", "warning")
    ELSE LET s1 == Queried(s, q)
             new_title == get_next_title(s1)
         IN  CASE q = "raise" ->
                    set_status(s1, "Error updating title: "
                                   \o "Error getting live stream info: " \o ApiError, "error")
               [] new_title = "" ->
                    set_status(s1, "No titles available to update.", "warning")
               [] OTHER ->
                    LET s2 == Push(s1, new_title, p)
                    IN  IF p = "raise"
                        THEN set_status(s2, "Error updating title: "
                                            \o "Error updating video title: " \o ApiError, "error")
                        ELSE LET s3 == archive_title(s2, new_title)
                             IN  IF Raised(s3)
                                 THEN set_status(Caught(s3), "Error updating title: "
                                          \o "Error archiving title: " \o StoreError, "error")
                                 ELSE set_status([s3 EXCEPT !.current_title = new_title],
                                                 "Title updated to: " \o new_title, "success")

update_title(s, q, p) ==
    IF ~s.youtube
    THEN set_status(s, "YouTube client not initialized", "error")
    ELSE IF ~s.is_live
    THEN set_status(s, "Channel is not live", "warning")
    ELSE LET s1 == Queried(s, q)
             new_title == get_next_title(s1)
         IN  CASE q = "raise" ->
                    set_status(s1, "Error updating title: "
                                   \o "Error getting live stream info: " \o ApiError, "error")
               [] q = "idle" ->
                    set_status(s1, "Channel is no longer live", "warning")
               [] new_title = "" ->
                    set_status(s1, "No titles available to update.", "warning")
               [] OTHER ->
                    LET s2 == Push(s1, new_title, p)
                    IN  IF p = "raise"
                        THEN set_status(s2, "Error updating title: "
                                            \o "Error updating video title: " \o ApiError, "error")
                        ELSE LET s3 == archive_title(s2, new_title)
                             IN  IF Raised(s3)
                                 THEN set_status(Caught(s3), "Error updating title: "
                                          \o "Error archiving title: " \o StoreError, "error")
                                 ELSE set_status([s3 EXCEPT !.current_title = new_title],
                                                 "Title updated to: " \o new_title, "success")

add_title(s, title) ==
    LET s1 == TitleManager_add_title(s, title)
    IN  IF Raised(s1)
        THEN set_status(Caught(s1), "Error adding title: " \o "Error adding title: "
                                    \o StoreError, "error")
        ELSE set_status(s1, "Title added: " \o title, "success")

----------------------------------------------------------------------------
(* "legacy": YouTubeUpdaterCore (youtube_updater/core.py) *)

Legacy_load_existing_titles(s) ==
    LET ts == NonBlank(s.titles_file)
    IN  IF ts # <<>>
        THEN [s EXCEPT !.titles = ts, !.next_title = ts[1]]
        ELSE [s EXCEPT !.titles = ts]

Legacy_create_default_titles_file(s) ==
    WriteTitles([s EXCEPT !.titles = <<DEFAULT_TITLE>>, !.next_title = DEFAULT_TITLE],
                <<DEFAULT_TITLE>>)

Legacy_load_titles(s) ==
    IF ~s.store_ok
    THEN set_status(s, "Error loading titles: " \o StoreError, "error")
    ELSE IF "titles" \in s.on_disk
    THEN set_status(Legacy_load_existing_titles(s), "Titles loaded successfully", "success")
    ELSE set_status([Legacy_create_default_titles_file(s) EXCEPT !.on_disk = @ \cup {"titles"}],
                    "Titles loaded successfully", "success")

\* the except clause of _archive_title, the history log being writable
Legacy_archive_failed(s) ==
    AppendHistory(set_status(s, "Error archiving title: " \o StoreError, "error"),
                  Timestamp(s.now) \o " - Error: " \o StoreError)

\* when the history log cannot be opened the handler's own write to it
\* raises again, outside the try block
Legacy_archive_title(s, title) ==
    LET ts == Timestamp(s.now)
        lines == NonBlank(s.titles_file)
    IN  IF ~CanAppend(s, "history")
        THEN Raise(set_status(s, "Error archiving title: " \o StoreError, "error"),
                   "PermissionError")
        ELSE IF "titles" \notin s.on_disk
        THEN set_status(AppendHistory(s, ts \o " - Error: " \o "Titles file not found"),
                        "Error archiving title: " \o "Titles file not found", "error")
        ELSE IF ~Contains(lines, title)
        THEN set_status(AppendHistory(s, ts \o " - Error: " \o "Title not found: " \o title),
                        "Error archiving title: " \o "Title not found: " \o title, "error")
        ELSE LET s1 == AppendHistory(s, ts \o " - Title updated: " \o title)
                 s2 == AppendApplied(s1, ts \o " - " \o title)
                 s3 == SaveTitles(s2, RemoveFirst(lines, title))
             IN  IF ~CanAppend(s, "applied")
                 THEN Legacy_archive_failed(s1)
                 ELSE IF Raised(s3)
                 THEN Legacy_archive_failed(Caught(s3))
                 ELSE set_status(s3, "Title archived: " \o title, "success")

\* result of _rotate_titles; titles.index raises ValueError when next_title is absent
Legacy_rotate_raises(s) == s.titles # <<>> /\ ~Contains(s.titles, s.next_title)

Legacy_rotate_titles(s) ==
    IF s.titles = <<>> \/ ~Contains(s.titles, s.next_title)
    THEN s
    ELSE LET current_index == IndexOf(s.titles, s.next_title) - 1
             next_index == (current_index + 1) % Len(s.titles)
         IN  [s EXCEPT !.next_title = s.titles[next_index + 1]]

Legacy_check_live_status(s, q) ==
    IF ~s.youtube
    THEN set_status(s, "YouTube client not initialized", "error")
    ELSE LET s1 == Queried(s, q)
         IN  CASE q = "raise" ->
                    set_status(s1, "Error checking live status: " \o ApiError, "error")
               [] q = "live" ->
                    set_status([s1 EXCEPT !.is_live = TRUE], "Channel is live", "success")
               [] OTHER ->
                    set_status([s1 EXCEPT !.is_live = FALSE, !.current_title = NOT_LIVE],
                               "Channel is not live", "info")

\* the except clause of update_title
Legacy_update_failed(s, detail) ==
    LET s1 == set_status(Caught(s), "Error updating title: " \o detail, "error")
    IN  IF CanAppend(s, "history")
        THEN AppendHistory(s1, Timestamp(s.now) \o " - Error updating title: " \o detail)
        ELSE Raise(s1, "PermissionError")

Legacy_update_title(s, q, p) ==
    IF ~s.youtube
    THEN set_status(s, "YouTube client not initialized", "error")
    ELSE IF ~s.is_live
    THEN set_status(s, "Channel is not live", "warning")
    ELSE LET s1 == Queried(s, q)
         IN  CASE q = "raise" -> Legacy_update_failed(s1, ApiError)
               [] q = "idle" -> set_status(s1, "No live broadcast found", "error")
               [] s1.current_title = s1.next_title ->
                    set_status(s1, "Title is already up to date", "info")
               [] OTHER ->
                    LET s2 == Push(s1, s1.next_title, p)
                    IN  IF p = "raise"
                        THEN Legacy_update_failed(s2, ApiError)
                        ELSE IF ~CanAppend(s, "history")
                        THEN Legacy_update_failed(s2, StoreError)
                        ELSE LET s3 == AppendHistory(s2,
                                          Timestamp(s.now) \o " - Changed title from \""
                                          \o s2.current_title \o "\" to \"" \o s2.next_title \o "\"")
                                 s4 == Legacy_archive_title(s3, s3.next_title)
                                 s5 == [s4 EXCEPT !.current_title = s4.next_title]
                             IN  IF Legacy_rotate_raises(s5)
                                 THEN Legacy_update_failed(s5,
                                          "'" \o s5.next_title \o "' is not in list")
                                 ELSE LET s6 == Legacy_rotate_titles(s5)
                                      IN  set_status(s6, "Title updated to: " \o s6.next_title,
                                                     "success")

----------------------------------------------------------------------------
(* "src": YouTubeUpdaterCore (src/youtube_updater/core.py) *)

Src_use_default(s) ==
    WriteTitles([s EXCEPT !.titles = <<DEFAULT_TITLE>>, !.next_title = DEFAULT_TITLE],
                <<DEFAULT_TITLE>>)

Src_load_existing_titles(s) ==
    LET ts == NonBlank(s.titles_file)
    IN  IF ts = <<>>
        THEN Src_use_default(s)
        ELSE IF ts[1] = NO_TITLES
        THEN Src_use_default(s)
        ELSE [s EXCEPT !.titles = ts, !.next_title = ts[1]]

Src_load_titles(s) ==
    set_status(Src_load_existing_titles(s), "Titles loaded successfully", "success")

Src_archive_title(s, title) ==
    LET lines == NonBlank(s.titles_file)
        rest == RemoveFirst(lines, title)
        \* f.write("\n".join(titles) + "\n"): a lone newline when nothing is left
        s1 == IF Contains(lines, title)
              THEN WriteTitles(s, IF rest = <<>> THEN <<Blank>> ELSE rest)
              ELSE s
        s2 == AppendApplied(s1, Timestamp(s.now) \o " - " \o title)
        s3 == AppendHistory(s2, Timestamp(s.now) \o " - Title updated: " \o title)
    IN  set_status(s3, "Title archived: " \o title, "success")

Src_rotate_titles(s) ==
    IF s.titles = <<>>
    THEN Src_use_default(s)
    ELSE LET rotated == Append(Tail(s.titles), Head(s.titles))
         IN  IF rotated[1] = NO_TITLES
             THEN Src_use_default(s)
             ELSE [s EXCEPT !.titles = rotated, !.next_title = rotated[1]]

Src_check_live_status(s, q) ==
    IF ~s.youtube
    THEN set_status(s, "YouTube API not initialized", "error")
    ELSE LET s1 == Queried(s, q)
         IN  CASE q = "raise" ->
                    set_status(s1, "Error checking live status: " \o ApiError, "error")
               [] q = "live" ->
                    set_status([s1 EXCEPT !.is_live = TRUE, !.current_title = s.remote_title],
                               "Channel is live", "success")
               [] OTHER ->
                    set_status([s1 EXCEPT !.is_live = FALSE, !.current_title = NOT_LIVE],
                               "Channel is not live", "info")

\* lines 412-424: the default is written back before the remote is asked
Src_ensure_title(s) ==
    IF s.titles_file = <<>>
    THEN set_status(Src_use_default(s), "Titles file empty, using default: Live Stream",
                    "warning")
    ELSE IF s.next_title = "" \/ s.titles = <<>> \/ s.next_title = NO_TITLES
    THEN set_status(Src_use_default(s), "No title available, using default: Live Stream",
                    "warning")
    ELSE s

Src_update_title(s, q, p) ==
    IF ~s.youtube
    THEN set_status(s, "YouTube client not initialized", "error")
    ELSE IF ~s.is_live
    THEN set_status(s, "No live stream found", "error")
    ELSE LET s0 == Src_ensure_title(s)
             s1 == Queried(s0, q)
         IN  CASE q = "raise" ->
                    set_status(s1, "Error updating title: " \o ApiError, "error")
               [] q = "idle" -> set_status(s1, "No live stream found", "error")
               [] p = "missing" ->
                    set_status(s1, "Could not retrieve video details", "error")
               [] OTHER ->
                    LET s2 == Push(s1, s1.next_title, p)
                    IN  IF p = "raise"
                        THEN set_status(s2, "Error updating title: " \o ApiError, "error")
                        ELSE LET used_title == s2.next_title
                                 s3 == AppendHistory(s2, Timestamp(s.now)
                                           \o " - Title updated: " \o used_title)
                                 s4 == [s3 EXCEPT !.current_title = used_title]
                                 s5 == Src_archive_title(s4, used_title)
                                 s6 == Src_rotate_titles(s5)
                                 s7 == IF s6.titles = <<>>
                                       THEN [s6 EXCEPT !.titles = <<DEFAULT_TITLE>>]
                                       ELSE s6
                                 s8 == [s7 EXCEPT !.next_title = s7.titles[1]]
                             IN  set_status(s8, "Title updated to: " \o s8.next_title,
                                            "success")

----------------------------------------------------------------------------
(* Construction *)

Impls == {"pkg", "legacy", "src"}

\* what is on disk and on the remote when the process starts
Blank_state(i, y, lines, nl, rl) ==
    [impl |-> i, youtube |-> y, titles |-> <<>>, next_title |-> "",
     current_title |-> NOT_LIVE, is_live |-> FALSE,
     status |-> "Initializing", status_type |-> "info",
     titles_file |-> lines, titles_nl |-> nl, applied_file |-> <<>>, history_log |-> <<>>,
     remote_live |-> rl, remote_title |-> "Old", pushed |-> <<>>,
     now |-> 0, trace |-> NoCalls("init"), store_ok |-> TRUE, raised |-> "",
     fault |-> NoFault, on_disk |-> Files,
     status_callbacks |-> <<>>, notified |-> <<>>]

\* setup_youtube of the single-file cores: the first live query
setup_youtube(s) ==
    IF ~s.youtube
    THEN set_status(s, "Error during authentication: " \o ApiError, "error")
    ELSE IF s.remote_live
    THEN [s EXCEPT !.is_live = TRUE, !.current_title = s.remote_title]
    ELSE [s EXCEPT !.is_live = FALSE, !.current_title = NOT_LIVE]

\* TitleManager.__init__ followed by YouTubeUpdaterCore.__init__
Pkg_init(y, present, lines, nl, rl) ==
    load_titles([Blank_state("pkg", y, lines, nl, rl) EXCEPT !.next_title = DEFAULT_TITLE])

Legacy_init(y, present, lines, nl, rl) ==
    LET s0 == [Blank_state("legacy", y, lines, nl, rl) EXCEPT !.next_title = NO_TITLES]
        s1 == setup_youtube(s0)
    IN  IF present
        THEN Legacy_load_titles(s1)
        ELSE set_status(Legacy_create_default_titles_file(s1),
                        "Titles loaded successfully", "success")

Src_init(y, present, lines, nl, rl) ==
    LET s0 == [Blank_state("src", y, lines, nl, rl)
                  EXCEPT !.next_title = DEFAULT_TITLE, !.titles = <<DEFAULT_TITLE>>]
        s1 == setup_youtube(s0)
    IN  IF present
        THEN Src_load_titles(s1)
        ELSE set_status(Src_use_default(s1), "Titles loaded successfully", "success")

Construct(i, y, present, lines, nl, rl) ==
    CASE i = "pkg" -> Pkg_init(y, present, lines, nl, rl)
      [] i = "legacy" -> Legacy_init(y, present, lines, nl, rl)
      [] OTHER -> Src_init(y, present, lines, nl, rl)

\* a titles file as an editor can leave it
DiskOk(present, lines, nl) ==
    /\ (~present => lines = <<>>)
    /\ (lines = <<>> => nl)
    /\ (~nl => Last(lines) # Blank)

Holds(s) ==
    /\ impl = s.impl
    /\ youtube = s.youtube
    /\ titles = s.titles
    /\ next_title = s.next_title
    /\ current_title = s.current_title
    /\ is_live = s.is_live
    /\ status = s.status
    /\ status_type = s.status_type
    /\ titles_file = s.titles_file
    /\ titles_nl = s.titles_nl
    /\ applied_file = s.applied_file
    /\ history_log = s.history_log
    /\ remote_live = s.remote_live
    /\ remote_title = s.remote_title
    /\ pushed = s.pushed
    /\ now = s.now
    /\ trace = s.trace
    /\ store_ok = s.store_ok
    /\ raised = s.raised
    /\ fault = s.fault
    /\ on_disk = s.on_disk
    /\ status_callbacks = s.status_callbacks
    /\ notified = s.notified

Init ==
    \E i \in Impls, y \in BOOLEAN, present \in BOOLEAN, nl \in BOOLEAN, rl \in BOOLEAN :
        \E lines \in BSeq(Titles \cup {Blank}, MaxQueue) :
            /\ DiskOk(present, lines, nl)
            /\ Holds(Construct(i, y, present, lines, nl, rl))

----------------------------------------------------------------------------
(* The environment: the broadcast and the wall clock *)

StreamStarts ==
    /\ ~remote_live
    /\ \E t \in RemoteTitles :
          Set([Begin(Cur, "stream_starts") EXCEPT !.remote_live = TRUE, !.remote_title = t])

StreamEnds ==
    /\ remote_live
    /\ Set([Begin(Cur, "stream_ends") EXCEPT !.remote_live = FALSE])

Tick ==
    /\ now < MaxTicks
    /\ Set([Begin(Cur, "tick") EXCEPT !.now = now + 1])

\* the user empties titles.txt in an editor ("Open Titles File") before the
\* first update cycle
ClearTitlesFile ==
    /\ pushed = <<>> /\ history_log = <<>>
    /\ titles_file # <<>>
    /\ Set([Begin(Cur, "clear_titles_file") EXCEPT !.titles_file = <<>>, !.titles_nl = TRUE])

(* The operations of the core, one action per public method *)

InBounds == Len(pushed) < MaxPush /\ Len(history_log) < MaxHistory

Outcomes == {"ok", "raise"}

\* videos().list() of the second single-file core may also return no items
SrcOutcomes == Outcomes \cup {"missing"}

\* construction returned an object
Built == trace.op # "boot" /\ ~(trace.op = "init" /\ raised # "")

CheckLiveStatus ==
    /\ impl = "pkg" /\ Built
    /\ \E q \in QueryReplies(Cur) : Set(check_live_status(Begin(Cur, "check_live_status"), q))

UpdateTitle ==
    /\ impl = "pkg" /\ Built
    /\ InBounds
    /\ \E q \in QueryReplies(Cur), p \in Outcomes :
          Set(update_title(Begin(Cur, "update_title"), q, p))

AddTitle ==
    /\ impl = "pkg" /\ Built
    /\ Len(titles) < MaxQueue
    /\ \E t \in Titles : Set(add_title(Called(Cur, "add_title", t, ""), t))

\* youtube_title_updater_cli.py, main(), --update
CliUpdate ==
    /\ impl = "pkg"
    /\ InBounds
    /\ \E q1 \in QueryReplies(Cur), p \in Outcomes :
          LET s1 == check_live_status(Begin(Cur, "cli_update"), q1)
              s2 == IF get_next_title(s1) = ""
                    THEN add_title(s1, generate_title(s1.now))
                    ELSE s1
          IN  IF s1.is_live
              THEN \E q2 \in QueryReplies(s2) : Set(update_title(s2, q2, p))
              ELSE Set(s1)

LegacyLoadTitles ==
    /\ impl = "legacy"
    /\ Set(Legacy_load_titles(Begin(Cur, "load_titles")))

LegacyCheckLiveStatus ==
    /\ impl = "legacy"
    /\ \E q \in QueryReplies(Cur) :
          Set(Legacy_check_live_status(Begin(Cur, "check_live_status"), q))

LegacyUpdateTitle ==
    /\ impl = "legacy"
    /\ InBounds
    /\ \E q \in QueryReplies(Cur), p \in Outcomes :
          Set(Legacy_update_title(Begin(Cur, "update_title"), q, p))

SrcLoadTitles ==
    /\ impl = "src"
    /\ Set(Src_load_titles(Begin(Cur, "load_titles")))

SrcCheckLiveStatus ==
    /\ impl = "src"
    /\ \E q \in QueryReplies(Cur) :
          Set(Src_check_live_status(Begin(Cur, "check_live_status"), q))

SrcUpdateTitle ==
    /\ impl = "src"
    /\ InBounds
    /\ \E q \in QueryReplies(Cur), p \in SrcOutcomes :
          Set(Src_update_title(Begin(Cur, "update_title"), q, p))

Next ==
    \/ StreamStarts
    \/ StreamEnds
    \/ Tick
    \/ ClearTitlesFile
    \/ CheckLiveStatus
    \/ UpdateTitle
    \/ AddTitle
    \/ CliUpdate
    \/ LegacyLoadTitles
    \/ LegacyCheckLiveStatus
    \/ LegacyUpdateTitle
    \/ SrcLoadTitles
    \/ SrcCheckLiveStatus
    \/ SrcUpdateTitle

Spec == Init /\ [][Next]_vars

----------------------------------------------------------------------------
(* The components on their own: the title store and the status manager are  *)
(* called directly, and the configuration directory may stop being         *)
(* accessible.                                                             *)

Credentials == {"ok", "missing", "failing"}

\* ComponentFactory.create_core: the TitleManager is built first, then the
\* credentials are fetched; neither call is guarded
create_core(creds, ok, lines, nl, rl) ==
    LET s0 == [Blank_state("pkg", creds = "ok", lines, nl, rl)
                  EXCEPT !.next_title = DEFAULT_TITLE, !.store_ok = ok]
        s1 == load_titles(s0)
    IN  IF Raised(s1)
        THEN [s1 EXCEPT !.youtube = FALSE]
        ELSE IF creds = "failing"
        THEN Raise([s1 EXCEPT !.youtube = FALSE], "AuthenticationError")
        ELSE s1

StoreInit ==
    \E nl \in BOOLEAN :
        \E lines \in BSeq(RawLines, MaxQueue) :
            /\ DiskOk(TRUE, lines, nl)
            /\ \/ \E creds \in Credentials, ok \in BOOLEAN :
                     Holds(create_core(creds, ok, lines, nl, FALSE))
               \/ \E y \in BOOLEAN : Holds(Legacy_init(y, TRUE, lines, nl, FALSE))

StoreFails ==
    /\ Built /\ store_ok
    /\ Set([Begin(Cur, "store_fails") EXCEPT !.store_ok = FALSE])

StoreRecovers ==
    /\ Built /\ ~store_ok
    /\ Set([Begin(Cur, "store_recovers") EXCEPT !.store_ok = TRUE])

LoadTitles ==
    /\ impl = "pkg" /\ Built
    /\ Set(load_titles(Begin(Cur, "load_titles")))

RotateTitles ==
    /\ impl = "pkg" /\ Built
    /\ LET s == rotate_titles(Begin(Cur, "rotate_titles"))
       IN  Set(IF Raised(s) THEN s ELSE Returned(s, rotate_titles_result(Cur)))

ArchiveTitle ==
    /\ impl = "pkg" /\ Built
    /\ Len(history_log) < MaxPush
    /\ \E t \in ArchiveArgs :
          Set(archive_title(Called(Cur, "archive_title", t, ""), t))

LegacyArchiveTitle ==
    /\ impl = "legacy"
    /\ Len(history_log) < MaxPush
    /\ \E t \in ArchiveArgs :
          Set(Legacy_archive_title(Called(Cur, "archive_title", t, ""), t))

SetStatus ==
    /\ Built
    /\ \E t \in Severities :
          Set(set_status(Called(Cur, "set_status", "Test message", t), "Test message", t))

StoreNext ==
    \/ StoreFails
    \/ StoreRecovers
    \/ AddTitle
    \/ LoadTitles
    \/ RotateTitles
    \/ ArchiveTitle
    \/ LegacyLoadTitles
    \/ LegacyArchiveTitle

StoreSpec == StoreInit /\ [][StoreNext]_vars

(* The status manager on its own, next to the operations that report to it *)

----------------------------------------------------------------------------
(* Processes started over a configuration directory, with file operations *)
(* that fail while an operation runs                                       *)

FaultSet ==
    {NoFault} \cup {[file |-> f, kept |-> 0] : f \in {"applied", "history", "open"}}
              \cup {[file |-> "titles", kept |-> k] : k \in 0..(MaxQueue - 1)}

\* the operations that write to the log files are bounded together
DiskBounds ==
    /\ Len(pushed) < MaxPush
    /\ Len(applied_file) < MaxPush
    /\ Len(history_log) < MaxPush

\* the queue operations that write no log are explored as the first operation
\* of a process, and a load also right after a failed operation
FirstOperation == trace.op \in {"init", "check_live_status"}

\* the directories a process is started over: empty, holding only the client
\* secrets, holding the secrets and a titles file, holding every file
BootDisks == {{}, {"client_secrets"}, {"titles", "client_secrets"}, Files}

\* the titles files a process is started over
BootLines == {<<>>, <<Blank>>, <<"Title 1">>, <<"Title 1", "Title 2">>}

\* a line left in the log files by an earlier run
OldRecord == "Earlier Title"

\* the memory of a process that has just started; the disk is as it was left
new_process(s) ==
    [s EXCEPT !.youtube = FALSE, !.titles = <<>>, !.next_title = "",
              !.current_title = NOT_LIVE, !.is_live = FALSE,
              !.status = "Initializing", !.status_type = "info"]

\* the files that are absent are created empty
_setup_file_paths(s) == [s EXCEPT !.on_disk = @ \cup {"titles", "applied", "history"}]

\* every file is opened for writing, whether it exists or not
_ensure_files_exist_truncating(s) ==
    [s EXCEPT !.on_disk = @ \cup {"titles", "applied", "history"},
              !.titles_file = <<>>, !.applied_file = <<>>, !.history_log = <<>>]

_ensure_files_exist(s) == [s EXCEPT !.on_disk = @ \cup {"titles", "applied", "history"}]

Legacy_setup_file_paths(s) == [s EXCEPT !.on_disk = @ \cup {"applied", "history"}]

TitleManager_init(s) ==
    load_titles(_ensure_files_exist([s EXCEPT !.titles = <<>>, !.next_title = DEFAULT_TITLE]))

\* ComponentFactory.create_core over the directory as it is
ComponentFactory_create_core(s, auth) ==
    LET s1 == TitleManager_init(_setup_file_paths(new_process(s)))
    IN  IF Raised(s1) \/ "client_secrets" \notin s.on_disk
        THEN s1
        ELSE IF auth = "failing"
        THEN Raise(s1, "AuthenticationError")
        ELSE [s1 EXCEPT !.youtube = TRUE]

\* YouTubeUpdaterCore.__init__ of the single-file core over the directory as it is
YouTubeUpdaterCore_init(s, auth) ==
    LET s0 == [Legacy_setup_file_paths(new_process(s)) EXCEPT !.next_title = NO_TITLES]
        s1 == setup_youtube([s0 EXCEPT !.youtube = (auth = "ok")])
    IN  IF "client_secrets" \notin s.on_disk
        THEN set_status(s0, "Client secrets file not found", "error")
        ELSE Legacy_load_titles(s1)

DiskInit ==
    \E i \in {"pkg", "legacy"}, d \in BootDisks, old \in BOOLEAN :
        \E lines \in BootLines :
            /\ "titles" \notin d => lines = <<>>
            /\ old => {"applied", "history"} \subseteq d
            /\ Holds([Blank_state(i, FALSE, lines, TRUE, TRUE)
                         EXCEPT !.trace = NoCalls("boot"), !.on_disk = d,
                                !.applied_file = IF old THEN <<OldRecord>> ELSE <<>>,
                                !.history_log = IF old THEN <<OldRecord>> ELSE <<>>])

\* the program is started
Start ==
    /\ trace.op = "boot"
    /\ \E auth \in {"ok", "failing"} :
        Set(IF impl = "pkg"
            THEN ComponentFactory_create_core(Begin(Cur, "init"), auth)
            ELSE YouTubeUpdaterCore_init(Begin(Cur, "init"), auth))

\* the live check the user interface runs when it opens
StartupCheck == trace.op = "init" /\ CheckLiveStatus

FaultyUpdateTitle ==
    /\ impl = "pkg" /\ Built
    /\ DiskBounds
    /\ \E q \in QueryReplies(Cur), p \in Outcomes, f \in FaultSet :
          Set(update_title(Under(Begin(Cur, "update_title"), f), q, p))

FaultyLegacyUpdateTitle ==
    /\ impl = "legacy" /\ Built
    /\ DiskBounds
    /\ \E q \in QueryReplies(Cur), p \in Outcomes, f \in FaultSet :
          Set(Legacy_update_title(Under(Begin(Cur, "update_title"), f), q, p))

FaultyArchiveTitle ==
    /\ impl = "pkg" /\ Built
    /\ DiskBounds
    /\ \E t \in ArchiveArgs, f \in FaultSet :
          Set(archive_title(Under(Called(Cur, "archive_title", t, ""), f), t))

FaultyLegacyArchiveTitle ==
    /\ impl = "legacy" /\ Built
    /\ DiskBounds
    /\ \E t \in ArchiveArgs, f \in FaultSet :
          Set(Legacy_archive_title(Under(Called(Cur, "archive_title", t, ""), f), t))

FaultyRotateTitles ==
    /\ impl = "pkg" /\ Built
    /\ FirstOperation
    /\ \E f \in FaultSet :
          Set(rotate_titles(Under(Begin(Cur, "rotate_titles"), f)))

FaultyAddTitle ==
    /\ impl = "pkg" /\ Built
    /\ FirstOperation
    /\ Len(titles) < MaxQueue
    /\ \E t \in Titles, f \in FaultSet :
          Set(add_title(Under(Called(Cur, "add_title", t, ""), f), t))

FaultyLoadTitles ==
    /\ impl = "pkg" /\ Built
    /\ FirstOperation \/ raised # ""
    /\ \E f \in FaultSet :
          Set(load_titles(Under(Begin(Cur, "load_titles"), f)))

DiskNext ==
    \/ Start
    \/ StartupCheck
    \/ FaultyUpdateTitle
    \/ FaultyLegacyUpdateTitle
    \/ FaultyArchiveTitle
    \/ FaultyLegacyArchiveTitle
    \/ FaultyRotateTitles
    \/ FaultyAddTitle
    \/ FaultyLoadTitles
    \/ LegacyLoadTitles

DiskSpec == DiskInit /\ [][DiskNext]_vars

----------------------------------------------------------------------------
(* The command-line interface of the package *)

\* YouTubeUpdaterCLI.__init__: the core is built by the factory
CliInit ==
    \E creds \in Credentials, nl \in BOOLEAN, rl \in BOOLEAN :
        \E lines \in BSeq(RawLines, MaxQueue) :
            /\ DiskOk(TRUE, lines, nl)
            /\ Holds(create_core(creds, TRUE, lines, nl, rl))

\* YouTubeUpdaterCLI._handle_update; the exit code is the result of the step
HandleUpdate ==
    /\ impl = "pkg" /\ Built
    /\ InBounds
    /\ \E q1 \in QueryReplies(Cur), p \in Outcomes :
          LET s1 == check_live_status(Begin(Cur, "handle_update"), q1)
          IN  IF s1.is_live
              THEN \E q2 \in QueryReplies(s1) : Set(Returned(update_title(s1, q2, p), "0"))
              ELSE Set(Returned(s1, "1"))

CliNext ==
    \/ StreamStarts
    \/ StreamEnds
    \/ HandleUpdate

CliSpec == CliInit /\ [][CliNext]_vars

----------------------------------------------------------------------------
(* The status manager with registered callbacks *)

\* a core built by the factory over an empty titles file
CallbackInit ==
    \E creds \in Credentials, rl \in BOOLEAN :
        Holds(create_core(creds, TRUE, <<>>, TRUE, rl))

AddStatusCallback ==
    /\ impl = "pkg" /\ Built
    /\ Len(status_callbacks) < MaxQueue
    /\ \E cb \in Callbacks :
          Set([Called(Cur, "add_status_callback", cb, "")
                  EXCEPT !.status_callbacks = Append(@, cb)])

\* set_status called directly, while the record of calls is short
ObservedSetStatus ==
    /\ impl = "pkg"
    /\ Len(notified) < MaxPush
    /\ SetStatus

CallbackNext ==
    \/ AddStatusCallback
    \/ ObservedSetStatus

CallbackSpec == CallbackInit /\ [][CallbackNext]_vars

----------------------------------------------------------------------------
(* FileOperations (utils/file_operations.py) on one file, titles.txt *)

\* [line.strip() for line in f.readlines()]: no line is left out
read_lines(s) == [i \in 1..Len(s.titles_file) |-> strip(s.titles_file[i])]

\* f.write("\n".join(lines)): no newline after the last line; a final empty
\* string only ends the line before it
write_lines(s, lines) ==
    IF lines = <<>>
    THEN [s EXCEPT !.titles_file = <<>>, !.titles_nl = TRUE]
    ELSE IF Last(lines) = Blank
    THEN [s EXCEPT !.titles_file = SubSeq(lines, 1, Len(lines) - 1), !.titles_nl = TRUE]
    ELSE [s EXCEPT !.titles_file = lines, !.titles_nl = FALSE]

\* open(file_path, "a"); f.write(f"{line}\n")
append_line(s, line) == AppendTitle(s, line)

\* a caller that holds a list of lines, next to a file of any content
FileInit ==
    \E nl \in BOOLEAN :
        \E held \in BSeq(RawLines, MaxQueue), lines \in BSeq(Titles \cup {Blank}, MaxQueue) :
            /\ DiskOk(TRUE, lines, nl)
            /\ Holds([Blank_state("pkg", FALSE, lines, nl, FALSE)
                         EXCEPT !.titles = held, !.trace = NoCalls("boot")])

\* the caller writes the list it holds; a run is one round trip: at most one
\* write, then at most one append, then one read
WriteLines ==
    /\ trace.op = "boot"
    /\ Set(write_lines(Begin(Cur, "write_lines"), titles))

AppendLine ==
    /\ trace.op \in {"boot", "write_lines"}
    /\ \E line \in Titles : Set(append_line(Called(Cur, "append_line", line, ""), line))

\* the caller keeps the list that read_lines returns
ReadLines ==
    /\ trace.op # "read_lines"
    /\ Set([Begin(Cur, "read_lines") EXCEPT !.titles = read_lines(Cur)])

FileNext ==
    \/ WriteLines
    \/ AppendLine
    \/ ReadLines

FileSpec == FileInit /\ [][FileNext]_vars

----------------------------------------------------------------------------
(* The default title generator on its own *)

\* the instants a title is generated at: every minute from early Monday to
\* Sunday evening of the model's week, which every zone maps into that week
FirstInstant == 180 - ClockStart
LastInstant == 6 * 1440 + 1199 - ClockStart
Instants == FirstInstant..LastInstant

GeneratorInit ==
    \E t \in Instants :
        Holds([Blank_state("pkg", FALSE, <<>>, TRUE, FALSE) EXCEPT !.now = t])

GenerateTitle ==
    /\ trace.op = "init"
    /\ \E zone \in Zones :
          Set(Returned(Called(Cur, "generate_title", zone, ""),
                       DefaultTitleGenerator_generate_title(now, zone)))

GeneratorNext == GenerateTitle

GeneratorSpec == GeneratorInit /\ [][GeneratorNext]_vars

----------------------------------------------------------------------------
(* The title queue used on its own, next to an editor of titles.txt *)

\* the titles file is rewritten from outside the program, as the tests do
EditTitlesFile ==
    /\ Built /\ store_ok
    /\ \E lines \in BSeq(Titles, MaxQueue) \ {<<>>} :
          Set(WriteTitles(Begin(Cur, "edit_file"), lines))

GetNextTitle ==
    /\ impl = "pkg" /\ Built
    /\ Set(Returned(Begin(Cur, "get_next_title"), get_next_title(Cur)))

\* _rotate_titles called directly: the ValueError of list.index reaches the caller
LegacyRotateTitles ==
    /\ impl = "legacy"
    /\ LET s == Begin(Cur, "rotate_titles")
       IN  Set(IF Legacy_rotate_raises(s) THEN Raise(s, "ValueError")
               ELSE Legacy_rotate_titles(s))

QueueNext ==
    \/ EditTitlesFile
    \/ GetNextTitle
    \/ RotateTitles
    \/ LegacyRotateTitles
    \/ LoadTitles
    \/ LegacyLoadTitles
    \/ ArchiveTitle

QueueSpec == StoreInit /\ [][QueueNext]_vars

StatusNext ==
    \/ SetStatus
    \/ AddTitle
    \/ LegacyLoadTitles
    \/ LegacyArchiveTitle

StatusSpec == StoreInit /\ [][StatusNext]_vars

----------------------------------------------------------------------------
(* Vocabulary of the properties *)

\* the titles a load would read from the titles file
PersistedQueue == NonBlank(titles_file)

Distinct(seq) == \A i, j \in 1..Len(seq) : seq[i] = seq[j] => i = j

\* the step is a run of update_title
UpdateCycle == trace'.op = "update_title"

\* the process runs one of the implementations a property is about
Runs(S) == impl \in S

\* the step is a run of update_title whose remote push was accepted
SuccessfulCycle == UpdateCycle /\ trace'.push = "ok"

\* record formats of the applied-titles file and the history log
AppliedRecord(t, title) == Timestamp(t) \o " - " \o title
UpdatedEntry(t, title) == Timestamp(t) \o " - Title updated: " \o title

\* the lines a step appended to a log
Appended(old, new) == SubSeq(new, Len(old) + 1, Len(new))

Count(seq, x) == Cardinality({i \in 1..Len(seq) : seq[i] = x})

----------------------------------------------------------------------------
(* C1: an update cycle whose live query returns a remote title equal to    *)
(* the next title pushes nothing, leaves the queue, the titles file, the   *)
(* applied-titles file and the history log unchanged, and ends with status *)
(* ("Title is already up to date", "info").                                *)
C1_InSyncCycleIsNoOp ==
    [][ (Runs({"pkg", "legacy"}) /\ UpdateCycle /\ trace'.query = "live"
            /\ remote_title = next_title)
          => /\ trace'.push = "none"
             /\ UNCHANGED <<pushed, titles, titles_file, titles_nl, applied_file, history_log>>
             /\ status' = "Title is already up to date"
             /\ status_type' = "info" ]_vars

(* C2: a successful update cycle on a non-empty queue q, the remote title  *)
(* differing from Head(q), pushes Head(q), archives it, leaves the queue   *)
(* in memory and in the titles file equal to Tail(q), and makes the head   *)
(* of Tail(q) the next title.                                              *)
C2_CycleConsumesHead ==
    [][ (Runs({"pkg"}) /\ SuccessfulCycle /\ titles # <<>> /\ titles = PersistedQueue
            /\ remote_title # Head(titles))
          => /\ trace'.title = Head(titles)
             /\ Len(applied_file') = Len(applied_file) + 1
             /\ Last(applied_file') \in {Head(titles), AppliedRecord(now, Head(titles))}
             /\ titles' = Tail(titles)
             /\ NonBlank(titles_file') = Tail(titles)
             /\ (Tail(titles) # <<>> => next_title' = Head(Tail(titles))) ]_vars

(* C3: every title pushed by a cycle is, at the moment of the push, an     *)
(* entry of the persisted queue, or the generated fallback when the        *)
(* persisted queue is empty: a consumed title is not pushed again.         *)
C3_PushedTitleIsQueued ==
    [][ (Runs({"pkg", "legacy"}) /\ SuccessfulCycle)
          => \/ Contains(PersistedQueue, trace'.title)
             \/ (PersistedQueue = <<>> /\ trace'.title = generate_title(now)) ]_vars

(* C4: on a queue of distinct titles A1..An, every successful cycle pushes *)
(* and records the head of the persisted queue and leaves its tail, so     *)
(* that n consecutive successful cycles push and record A1, ..., An in     *)
(* that order and leave the persisted queue empty.                         *)
C4_RotationOrder ==
    [][ (Runs({"pkg", "legacy"}) /\ SuccessfulCycle /\ PersistedQueue # <<>>
            /\ Distinct(PersistedQueue)
            /\ titles = PersistedQueue)
          => /\ pushed' = Append(pushed, Head(PersistedQueue))
             /\ Len(applied_file') = Len(applied_file) + 1
             /\ Last(applied_file') \in {Head(PersistedQueue),
                                         AppliedRecord(now, Head(PersistedQueue))}
             /\ NonBlank(titles_file') = Tail(PersistedQueue) ]_vars

(* C5: within an update cycle a title leaves the queue or enters the       *)
(* applied-titles file only when the push of that title succeeded in the   *)
(* same cycle, and a cycle that ends without a successful push leaves the  *)
(* titles file, the applied-titles file and the history log as they were.  *)
C5_NoMutationWithoutPush ==
    [][ (Runs({"pkg", "legacy"}) /\ UpdateCycle)
          => /\ (applied_file' # applied_file \/ NonBlank(titles_file') # PersistedQueue)
                   => /\ trace'.push = "ok"
                      /\ Len(applied_file') = Len(applied_file) + 1
                      /\ Last(applied_file') \in {trace'.title,
                                                  AppliedRecord(now, trace'.title)}
                      /\ NonBlank(titles_file') = RemoveFirst(PersistedQueue, trace'.title)
             /\ (trace'.push # "ok"
                   => UNCHANGED <<titles_file, titles_nl, applied_file, history_log>>) ]_vars

(* C6: when the remote push raises, the queue, next_title, the titles      *)
(* file, the applied-titles file and the history log are as before the     *)
(* cycle and the status is an error "Error updating title: <detail>"      *)
(* carrying the text of the underlying error.                              *)
C6_FailedPushChangesNothing ==
    [][ (Runs({"pkg", "legacy"}) /\ UpdateCycle /\ trace'.push = "raise")
          => /\ UNCHANGED <<titles, next_title, titles_file, titles_nl,
                            applied_file, history_log>>
             /\ status_type' = "error"
             /\ status' \in {"Error updating title: " \o ApiError,
                             "Error updating title: " \o "Error updating video title: "
                                 \o ApiError} ]_vars

(* C7: whenever the queue is non-empty, next_title is its first entry.     *)
C7_NextTitleIsHead ==
    (Runs({"pkg", "legacy"}) /\ titles # <<>>) => next_title = Head(titles)

(* C8: no default or fallback title is ever in the persisted queue or the  *)
(* in-memory queue: not after load, rotation or an update cycle.           *)
C8_FallbackNeverPersisted ==
    Runs({"pkg", "src"}) =>
    \A t \in {DEFAULT_TITLE} \cup {generate_title(m) : m \in 0..MaxTicks} :
        ~Contains(titles_file, t) /\ ~Contains(titles, t)

(* C9: with an empty queue the next title is the one the Default Title     *)
(* Generator produces for the current time.                                *)
C9_EmptyQueueUsesGenerator ==
    (Runs({"pkg"}) /\ titles = <<>>) => get_next_title(Cur) = generate_title(now)

(* C10: a successful cycle applying X appends exactly one timestamped      *)
(* record of X to the applied-titles file and exactly one timestamped      *)
(* "Title updated: X" entry to the history log, and these are the last     *)
(* lines of the two files.                                                 *)
C10_OneRecordPerConsumption ==
    [][ (Runs({"pkg", "src"}) /\ SuccessfulCycle)
          => /\ Appended(applied_file, applied_file') = <<AppliedRecord(now, trace'.title)>>
             /\ Count(Appended(history_log, history_log'),
                      UpdatedEntry(now, trace'.title)) = 1
             /\ Last(history_log') = UpdatedEntry(now, trace'.title) ]_vars

----------------------------------------------------------------------------
\* the step is a direct call of archive_title(trace'.arg)
ArchiveCall == trace'.op = "archive_title"

(* C11: archiving a title that is not in the queue is signalled as an      *)
(* error: the status becomes ("Error archiving title: ...", "error"), an   *)
(* "Error" entry is appended to the history log, no record is appended to  *)
(* the applied-titles file and the queue is left unchanged.                *)
C11_ArchiveOfAbsentTitleIsError ==
    [][ (Runs({"pkg", "legacy"}) /\ ArchiveCall /\ store_ok
            /\ ~Contains(PersistedQueue, trace'.arg) /\ ~Contains(titles, trace'.arg))
          => /\ status_type' = "error"
             /\ status' = "Error archiving title: " \o "Title not found: " \o trace'.arg
             /\ Appended(history_log, history_log')
                   = <<Timestamp(now) \o " - Error: " \o "Title not found: " \o trace'.arg>>
             /\ UNCHANGED <<applied_file, titles, titles_file, titles_nl>> ]_vars

(* C12: when the title just pushed by an update cycle is not in the titles *)
(* file, the cycle ends with status type "error": no later "success"      *)
(* status of the same cycle overwrites the mismatch.                       *)
C12_MismatchEndsInError ==
    [][ (Runs({"legacy"}) /\ SuccessfulCycle /\ ~Contains(PersistedQueue, trace'.title))
          => status_type' = "error" ]_vars

(* C13: after an update cycle that pushed title T (T taken from the titles *)
(* file), the status is ("Title updated to: T", "success") with T the      *)
(* pushed title, not the following queue entry, and current_title is T,    *)
(* whatever the length of the queue.                                       *)
C13_StatusNamesPushedTitle ==
    [][ (Runs({"pkg", "legacy"}) /\ SuccessfulCycle /\ Contains(PersistedQueue, trace'.title))
          => /\ status' = "Title updated to: " \o trace'.title
             /\ status_type' = "success"
             /\ current_title' = trace'.title ]_vars

\* the step is a run of update_title that finds the channel not live: by the
\* cached flag, or by the live query of the cycle
NotLiveCycle == UpdateCycle /\ youtube /\ (~is_live \/ trace'.query = "idle")

CycleFrame ==
    /\ trace'.push = "none"
    /\ UNCHANGED <<pushed, titles, next_title, titles_file, titles_nl,
                   applied_file, history_log>>

(* C14 as stated: an update cycle that finds the channel not live ends     *)
(* with status ("Channel is not live", "info"), pushes nothing and leaves  *)
(* the queue, next_title and the three files unchanged.                    *)
C14_NotLiveCycleIsInfo ==
    [][ (Runs({"pkg", "legacy"}) /\ NotLiveCycle)
          => /\ status' = "Channel is not live"
             /\ status_type' = "info"
             /\ CycleFrame ]_vars

(* C14 as amended: an update cycle that finds the channel not live pushes  *)
(* nothing and leaves the queue, next_title and the three files unchanged; *)
(* its status is ("Channel is not live", "warning") when the cached live   *)
(* flag is false, and when the live query of the cycle finds no broadcast  *)
(* it is ("Channel is no longer live", "warning") in the package core and  *)
(* ("No live broadcast found", "error") in the single-file core.           *)
C14_NotLiveCycleWarns ==
    [][ (Runs({"pkg", "legacy"}) /\ NotLiveCycle)
          => /\ IF ~is_live
                THEN status' = "Channel is not live" /\ status_type' = "warning"
                     /\ trace'.query = "none"
                ELSE IF impl = "pkg"
                THEN status' = "Channel is no longer live" /\ status_type' = "warning"
                ELSE status' = "No live broadcast found" /\ status_type' = "error"
             /\ CycleFrame ]_vars

\* an update cycle was refused on the cached flag while the broadcast is on
\* the air and titles are queued
C14_Witness ==
    /\ Runs({"pkg", "legacy"}) /\ trace.op = "update_title" /\ youtube
    /\ ~is_live /\ remote_live /\ titles # <<>>
    /\ status = "Channel is not live" /\ status_type = "warning"

\* the step is a run of check_live_status
CheckCall == trace'.op = "check_live_status"

(* C15: check_live_status only refreshes the live state and the status:    *)
(* whatever the state and the reply of the remote (live, not live, error), *)
(* it pushes no title and leaves the queue, next_title, the titles file,   *)
(* the applied-titles file and the history log unchanged.                  *)
C15_CheckOnlyRefreshes ==
    [][ (Runs({"pkg", "legacy"}) /\ CheckCall)
          => /\ trace'.push = "none"
             /\ UNCHANGED <<pushed, remote_title, titles, next_title, titles_file,
                            titles_nl, applied_file, history_log>> ]_vars

\* a check has just found the channel live with a remote title that differs
\* from the queued next title
C15_Witness ==
    /\ Runs({"pkg", "legacy"}) /\ trace.op = "check_live_status" /\ trace.query = "live"
    /\ is_live /\ titles # <<>> /\ remote_title # next_title

\* the step is a call of add_title(trace'.arg)
AddCall == trace'.op = "add_title"

(* C16: add_title(t) appends t at the tail of the queue for every t, also  *)
(* when t is already queued, and persists at once: afterwards the queue in *)
(* memory and the titles file both are the old queue followed by t, and on *)
(* an empty queue t becomes the first line of the titles file.             *)
C16_AddTitleAppends ==
    [][ (Runs({"pkg"}) /\ AddCall /\ store_ok)
          => /\ titles' = Append(titles, trace'.arg)
             /\ NonBlank(titles_file') = Append(titles, trace'.arg)
             /\ (titles = <<>> => titles_file'[1] = trace'.arg) ]_vars

\* the step is a call of load_titles
LoadCall == trace'.op = "load_titles"

(* C17: load_titles sets the queue to exactly the non-blank, trimmed lines *)
(* of the titles file, in file order, nothing added, dropped or reordered, *)
(* and sets next_title to the first of them.                               *)
C17_LoadReadsFile ==
    [][ (Runs({"pkg", "legacy"}) /\ LoadCall /\ store_ok)
          => /\ titles' = PersistedQueue
             /\ (PersistedQueue # <<>> => next_title' = Head(PersistedQueue)) ]_vars

(* C18: loading an empty, missing or unreadable titles file yields an      *)
(* empty queue and never raises, neither from load_titles nor from the     *)
(* construction that runs it.                                              *)
C18_EmptyLoadGivesEmptyQueue ==
    /\ [](trace.op = "init" => raised # "TitleManagerError")
    /\ [][ (Runs({"pkg", "legacy"}) /\ LoadCall /\ (PersistedQueue = <<>> \/ ~store_ok))
             => titles' = <<>> /\ raised' = "" ]_vars

\* the step is a public operation of the core
CoreCall == trace'.op \in {"check_live_status", "update_title", "add_title"}

\* the external client or the title store failed during the step
StepFailed ==
    \/ trace'.query = "raise"
    \/ trace'.push = "raise"
    \/ (~store_ok /\ AddCall /\ ~Contains(titles, trace'.arg))

(* C19: no failure of the external client or of the title store leaves a   *)
(* public operation of the core: check_live_status, update_title and       *)
(* add_title return normally with the failure recorded as a status of type *)
(* "error", and building the core over an unreadable titles file or with   *)
(* failing credentials does not raise to the caller.                       *)
C19_NothingPropagates ==
    /\ [](trace.op = "init" => raised = "")
    /\ [][ (Runs({"pkg"}) /\ CoreCall)
             => raised' = "" /\ (StepFailed => status_type' = "error") ]_vars

\* the step is a direct call set_status(trace'.arg, trace'.type)
StatusCall == trace'.op = "set_status"

(* C20: the stored severity is one of info, success, error, warning in     *)
(* every reachable state: set_status stores the message with each of those *)
(* four severities, and with any other severity it raises ValueError and   *)
(* leaves the stored message and severity unchanged.                       *)
C20_SeverityIsValid ==
    /\ [](status_type \in STATUS_TYPES)
    /\ [][ StatusCall
             => IF trace'.type \in {"info", "success", "error", "warning"}
                THEN status' = trace'.arg /\ status_type' = trace'.type /\ raised' = ""
                ELSE raised' = "ValueError" /\ UNCHANGED <<status, status_type>> ]_vars

\* set_status has just refused a severity, over a status that is not the
\* initial one
C20_Witness ==
    /\ trace.op = "set_status" /\ trace.type = "invalid_type" /\ raised = "ValueError"
    /\ status # "Initializing" /\ status # trace.arg

(* C27: after check_live_status completes without a client error, is_live  *)
(* equals the live state the remote reported in that call; when live,       *)
(* current_title is the remote broadcast's title and the status is          *)
(* ('Channel is live', 'success'); when not live, current_title is          *)
(* 'Not Live' and the status is ('Channel is not live', 'info').            *)
C27_CheckReflectsRemote ==
    [][ (Runs({"pkg", "legacy"}) /\ CheckCall /\ trace'.query \in {"live", "idle"})
          => IF trace'.query = "live"
             THEN /\ is_live'
                  /\ current_title' = remote_title
                  /\ status' = "Channel is live" /\ status_type' = "success"
             ELSE /\ ~is_live'
                  /\ current_title' = NOT_LIVE
                  /\ status' = "Channel is not live" /\ status_type' = "info" ]_vars

\* the step is a call of an operation that changes the title queue
MutationCall ==
    \/ trace'.op \in {"add_title", "archive_title", "rotate_titles"}
    \/ (LoadCall /\ PersistedQueue = <<>>)

(* C26: after every completed mutation of the title queue (add_title,       *)
(* archive_title / _archive_title, rotate_titles, default creation), for    *)
(* any initial content of the titles file, also one whose last line has no  *)
(* trailing newline, reading the titles file back yields exactly the        *)
(* in-memory queue: same titles, same order, same length.                   *)
C26_FileMirrorsQueue ==
    [][ (Runs({"pkg", "legacy"}) /\ MutationCall /\ raised' = "")
          => NonBlank(titles_file') = titles' ]_vars

\* the step is a call of get_next_title
GetCall == trace'.op = "get_next_title"

(* C28: TitleManager.get_next_title returns the first title currently in    *)
(* the titles file, also when the file was written after the manager was    *)
(* constructed, and rotates the persisted queue so that this title moves to *)
(* the end of the file.                                                     *)
C28_GetNextTitleReadsAndRotates ==
    [][ (Runs({"pkg"}) /\ GetCall /\ PersistedQueue # <<>>)
          => /\ trace'.result = PersistedQueue[1]
             /\ NonBlank(titles_file') = Append(Tail(PersistedQueue), PersistedQueue[1]) ]_vars

\* the step is a call of rotate_titles / _rotate_titles
RotateCall == trace'.op = "rotate_titles"

\* rotate_titles applied n times in a row to the state s
RECURSIVE rotate_n(_, _)
rotate_n(s, n) ==
    IF n = 0 THEN s
    ELSE rotate_n(IF s.impl = "pkg" THEN rotate_titles(s) ELSE Legacy_rotate_titles(s), n - 1)

(* C29: rotate_titles on a non-empty queue returns the old head, moves it   *)
(* to the tail, sets next_title to the new head and writes the rotated      *)
(* queue to the titles file; no title is added or removed, and applying it  *)
(* len(queue) times restores the original order and next_title.             *)
C29_RotateIsCyclicShift ==
    [][ (Runs({"pkg", "legacy"}) /\ RotateCall /\ store_ok /\ titles # <<>>)
          => /\ raised' = ""
             /\ trace'.result = Head(titles)
             /\ titles' = Append(Tail(titles), Head(titles))
             /\ next_title' = titles'[1]
             /\ NonBlank(titles_file') = titles'
             /\ rotate_n(Cur, Len(titles)).titles = titles
             /\ rotate_n(Cur, Len(titles)).next_title = next_title ]_vars

\* the step is a call of generate_title on a generator of zone trace'.arg
GenerateCall == trace'.op = "generate_title"

\* minute of the week (Monday 00:00 = 0) that the instant t is in a zone
LocalMinute(t, zone) ==
    (ClockStart + t + UtcOffset(zone) - UtcOffset(DEFAULT_TIMEZONE)) % (7 * 1440)

\* Saturday, 17:00 to 23:45 inclusive
SaturdayEvening(m) ==
    /\ m \div 1440 = 5
    /\ m % 1440 >= 17 * 60
    /\ m % 1440 <= 23 * 60 + 45

\* the title ends with the given suffix after a date of the week
HasSuffix(title, suffix) ==
    \E day \in 0..6 : title = DatePart(day * 1440 - ClockStart) \o " - " \o suffix

(* C25: generate_title returns the suffix 'Vespers and Midnight Praises'    *)
(* exactly when, on the wall clock of the generator's configured timezone,  *)
(* it is Saturday between 17:00 and 23:45 inclusive, and 'Divine Liturgy'   *)
(* at every other weekday, hour and minute: Saturday 16:59 and 17:00 differ,*)
(* Saturday 23:45 and 23:46 differ, Sunday 00:30 gives 'Divine Liturgy'.    *)
C25_VespersOnSaturdayEvening ==
    [][ GenerateCall
          => IF SaturdayEvening(LocalMinute(now, trace'.arg))
             THEN HasSuffix(trace'.result, "Vespers and Midnight Praises")
             ELSE HasSuffix(trace'.result, "Divine Liturgy") ]_vars

\* a generator of the Pacific zone has produced the evening title for
\* Saturday 23:45 of its zone, when the model's clock stands at Sunday 02:45
C25_Witness ==
    /\ trace.op = "generate_title" /\ trace.arg = "US/Pacific"
    /\ LocalMinute(now, "US/Pacific") = 5 * 1440 + 23 * 60 + 45
    /\ Weekday(now) = 6
    /\ HasSuffix(trace.result, "Vespers and Midnight Praises")

\* the sequence new continues the sequence old
Extends(old, new) == Len(old) <= Len(new) /\ SubSeq(new, 1, Len(old)) = old

(* C21: the applied-titles file and the history log are append-only: across *)
(* construction, load, add_title, archive and update cycles, whether they   *)
(* succeed or fail, every line once written stays present, unmodified and   *)
(* in the same relative order; the files change only by appending.          *)
C21_LogsAreAppendOnly ==
    [][ Runs({"pkg", "legacy"})
          => /\ Extends(applied_file, applied_file')
             /\ Extends(history_log, history_log') ]_vars

\* a process started over log files of an earlier run has appended to both
C21_Witness ==
    /\ Runs({"pkg", "legacy"}) /\ trace.op \in {"update_title", "archive_title"}
    /\ Len(applied_file) > 1 /\ Head(applied_file) = OldRecord
    /\ Len(history_log) > 1 /\ Head(history_log) = OldRecord

\* an append to the applied-titles file or to the history log fails in the step
ArchiveWriteFails == fault'.file \in {"applied", "history"}

(* C22: when the append to the applied-titles file or to the history log    *)
(* fails during consumption, after the remote push succeeded, the failure   *)
(* is reported in the status, and the queue head is still removed and the   *)
(* shortened queue is persisted: the mutation is neither rolled back nor    *)
(* skipped.                                                                 *)
C22_FailedArchiveStillConsumes ==
    [][ (Runs({"pkg"}) /\ SuccessfulCycle /\ ArchiveWriteFails
            /\ titles # <<>> /\ trace'.title = Head(titles))
          => /\ status_type' = "error"
             /\ titles' = Tail(titles)
             /\ NonBlank(titles_file') = Tail(titles) ]_vars

\* the step is a call of an operation that saves the titles file
SaveCall ==
    \/ Runs({"pkg"}) /\ trace'.op \in {"rotate_titles", "archive_title", "load_titles"}
    \/ Runs({"legacy"}) /\ ArchiveCall

\* the queue the operation of the step saves
SavedQueue ==
    IF impl = "pkg" THEN titles'
    ELSE IF Contains(PersistedQueue, trace'.arg)
    THEN RemoveFirst(PersistedQueue, trace'.arg)
    ELSE PersistedQueue

(* C23: saving the queue is atomic: when the write fails at any point of a  *)
(* save of the titles file (in rotate_titles, archive_title or default      *)
(* creation), a subsequent load observes either the complete old queue or   *)
(* the complete new queue, never an empty, truncated or partial one.        *)
C23_SaveIsAtomic ==
    [][ SaveCall => NonBlank(titles_file') \in {PersistedQueue, SavedQueue} ]_vars

\* the title the step archives
ArchivedTitle == IF UpdateCycle THEN trace'.title ELSE trace'.arg

\* the step appended to the applied-titles file
AppliedAppended == Len(applied_file') > Len(applied_file)

\* the step appended the archive entry of the title to the history log
HistoryAppended ==
    Contains(Appended(history_log, history_log'),
             IF impl = "pkg" THEN Timestamp(now) \o ": " \o ArchivedTitle
             ELSE UpdatedEntry(now, ArchivedTitle))

\* the step ended with an exception or with an error or warning status
ReportedFailure == raised' # "" \/ status_type' \in {"error", "warning"}

(* C24: archive either appends to both the applied-titles file and the      *)
(* history log, or its outcome is reported as a failure: whenever exactly   *)
(* one of the two appends took effect, the operation ends with a reported   *)
(* failure, never with a success status.                                    *)
C24_PartialArchiveIsReported ==
    [][ (Runs({"pkg", "legacy"}) /\ (ArchiveCall \/ UpdateCycle)
            /\ AppliedAppended # HistoryAppended)
          => ReportedFailure ]_vars

\* the step is the construction of the core over the directory
ConstructCall == trace'.op = "init"

\* titles.txt, applied-titles.txt and history.log
DataFiles == {"titles", "applied", "history"}

(* C30: a first construction in a directory that has none of the three      *)
(* files creates the applied-titles file and the history log empty and the  *)
(* titles file with exactly one line, the default title 'Live Stream',      *)
(* which is also the whole in-memory queue and next_title; a file that      *)
(* already exists is never overwritten by construction.                     *)
C30_ConstructionCreatesMissingFiles ==
    [][ (Runs({"pkg", "legacy"}) /\ ConstructCall)
          => /\ (on_disk \cap DataFiles = {})
                  => /\ DataFiles \subseteq on_disk'
                     /\ applied_file' = <<>> /\ history_log' = <<>>
                     /\ titles_file' = <<DEFAULT_TITLE>>
                     /\ titles' = <<DEFAULT_TITLE>> /\ next_title' = DEFAULT_TITLE
             /\ "titles" \in on_disk => titles_file' = titles_file
             /\ "applied" \in on_disk => applied_file' = applied_file
             /\ "history" \in on_disk => history_log' = history_log ]_vars

(* C31: update_title pushes a title to the remote only if a live query      *)
(* issued within that same call reported a live broadcast: a cached is_live *)
(* flag left true by an earlier check never by itself causes a push, and a  *)
(* false is_live flag prevents any remote call at all.                      *)
C31_PushNeedsFreshLiveReply ==
    [][ (Runs({"pkg", "legacy"}) /\ UpdateCycle)
          => /\ trace'.push # "none" => (trace'.query = "live" /\ remote_live)
             /\ ~is_live => /\ trace'.query = "none" /\ trace'.push = "none"
                            /\ UNCHANGED <<pushed, remote_title>> ]_vars

\* an update cycle has run with the cached flag still true after the
\* broadcast ended: its own query found no broadcast and nothing was pushed
C31_Witness ==
    /\ Runs({"pkg", "legacy"}) /\ trace.op = "update_title"
    /\ youtube /\ ~remote_live
    /\ trace.query = "idle" /\ trace.push = "none" /\ pushed = <<>>

(* C32: in every reachable state of the core, after any sequence of         *)
(* check_live_status and update_title calls with any remote responses or    *)
(* errors, is_live = false implies current_title = 'Not Live'.              *)
C32_NotLiveHasNoTitle ==
    Runs({"pkg"}) => (~is_live => current_title = NOT_LIVE)

\* a check has found the broadcast ended after a title had been pushed to it
C32_Witness ==
    /\ Runs({"pkg"}) /\ trace.op = "check_live_status" /\ trace.query = "idle"
    /\ ~is_live /\ current_title = NOT_LIVE /\ pushed # <<>>

(* C33: the single-file core's update_title never sends a UI placeholder to *)
(* the remote as a broadcast title: for any titles-file content, also an    *)
(* empty file, and any sequence of load_titles, check_live_status and       *)
(* update_title calls, 'No titles available' and 'Not Live' are never the   *)
(* title passed to the remote update.                                       *)
C33_NoPlaceholderIsPushed ==
    [][ (Runs({"legacy"}) /\ UpdateCycle /\ trace'.push # "none")
          => trace'.title \notin {NO_TITLES, NOT_LIVE} ]_vars

\* the step is a run of the CLI update command
UpdateCommand == trace'.op = "handle_update"

(* C34: the CLI update command returns exit code 0 only if the title push   *)
(* succeeded in that invocation (core status type 'success'); it returns a  *)
(* non-zero code when the channel is not live and when update_title ended   *)
(* with an error or warning status.                                         *)
C34_ExitCodeReflectsPush ==
    [][ (Runs({"pkg"}) /\ UpdateCommand)
          => /\ trace'.result = "0" => (trace'.push = "ok" /\ status_type' = "success")
             /\ ~is_live' => trace'.result # "0"
             /\ status_type' \in {"error", "warning"} => trace'.result # "0" ]_vars

\* the step is a call of one of the queue operations of the TitleManager
QueueCall == trace'.op \in {"add_title", "rotate_titles", "archive_title"}

(* C35: no title is lost by TitleManager: across add_title, rotate_titles   *)
(* and archive_title calls without I/O failures, every title of the queue,  *)
(* loaded or added, is afterwards still in the queue or has a record in the *)
(* applied-titles file, and archive_title removes at most one queue entry,  *)
(* the first occurrence of the given title, per call.                       *)
C35_NoTitleIsLost ==
    [][ (Runs({"pkg"}) /\ QueueCall /\ store_ok)
          => /\ \A i \in 1..Len(titles) :
                   Contains(titles', titles[i]) \/ Contains(applied_file', titles[i])
             /\ AddCall => Contains(titles', trace'.arg)
             /\ ArchiveCall => /\ titles' = RemoveFirst(titles, trace'.arg)
                               /\ Contains(applied_file', trace'.arg)
             /\ ~ArchiveCall => Len(titles') >= Len(titles) ]_vars

\* a title has been archived out of the queue: it is no longer queued and the
\* applied-titles file holds its record
C35_Witness ==
    /\ Runs({"pkg"}) /\ trace.op = "archive_title" /\ raised = ""
    /\ ~Contains(titles, trace.arg) /\ Contains(PersistedQueue, "Title 2")
    /\ Contains(applied_file, trace.arg) /\ trace.arg = "Title 1"

\* the step registers a callback
RegisterCall == trace'.op = "add_status_callback"

\* the call the i-th registered callback receives for the status of the step
Notification(i) ==
    [callback |-> status_callbacks[i], message |-> trace'.arg, type |-> trace'.type,
     status |-> trace'.arg, status_type |-> trace'.type]

(* C36: StatusManager notifies every registered callback exactly once per   *)
(* successful set_status, in registration order, with the new (message,     *)
(* type) and after the stored status has been updated; a set_status         *)
(* rejected for an invalid type notifies no callback, and a callback        *)
(* receives no notification for statuses set before it was registered.      *)
C36_CallbacksNotifiedInOrder ==
    [][ Runs({"pkg"})
          => /\ (StatusCall /\ raised' = "")
                  => Appended(notified, notified')
                        = [i \in 1..Len(status_callbacks) |-> Notification(i)]
             /\ (StatusCall /\ raised' = "ValueError") => notified' = notified
             /\ RegisterCall => /\ notified' = notified
                                /\ status_callbacks' = Append(status_callbacks, trace'.arg)
             /\ Extends(notified, notified') ]_vars

\* two callbacks are registered and a status set after the second
\* registration has reached both, the first registered first
C36_Witness ==
    /\ Runs({"pkg"}) /\ trace.op = "set_status" /\ raised = ""
    /\ status_callbacks = <<"callback 2", "callback 1">>
    /\ Len(notified) = 2
    /\ notified[1].callback = "callback 2" /\ notified[2].callback = "callback 1"
    /\ notified[2].status = status /\ notified[2].type = status_type

\* a list of non-blank, trimmed lines
Clean(lines) == \A i \in 1..Len(lines) : lines[i] # Blank /\ strip(lines[i]) = lines[i]

\* what read_lines returns for the file as the step leaves it
ReadBack == read_lines([Cur EXCEPT !.titles_file = titles_file'])

(* C37: FileOperations round trip: for any list L of non-blank, trimmed     *)
(* lines, write_lines(f, L) followed by read_lines(f) returns L;            *)
(* write_lines(f, L) followed by append_line(f, x) and read_lines(f)        *)
(* returns L followed by x as a separate entry; and read_lines returns no   *)
(* blank entries for a file containing blank lines.                         *)
C37_FileRoundTrip ==
    [][ /\ (trace'.op = "write_lines" /\ Clean(titles)) => ReadBack = titles
        /\ (trace'.op = "append_line" /\ trace.op = "write_lines" /\ Clean(titles))
              => ReadBack = Append(titles, trace'.arg)
        /\ trace'.op = "read_lines" => ~Contains(titles', Blank) ]_vars

====
